---- MODULE Spec2Model ----
(***************************************************************************)
(* Prediction-and-explanation pipeline of the predictive maintenance API:  *)
(* the model registry (Backend/AI/model_manager.py), the attribution       *)
(* engine (Backend/AI/explainability.py) and the request handlers that     *)
(* call them (Backend/api/*.py, Backend/app.py).                           *)
(*                                                                         *)
(* Numbers are fixed point: a RUL value is an integer number of cycles, a  *)
(* confidence of predict_rul is counted in units of 1/200, a class         *)
(* probability in units of 1/ProbUnits, an anomaly score in integer steps  *)
(* around the threshold 0.                                                 *)
(***************************************************************************)
EXTENDS Integers, Sequences, FiniteSets, TLC

VARIABLES env, prediction_mm, explain_mm, explainer, anomaly_mm, pc, req, lib, resp, calls

vars == <<env, prediction_mm, explain_mm, explainer, anomaly_mm, pc, req, lib, resp, calls>>

\* ------------------------------------------------------------------ bounds
MaxRul == 205
RulBelowZero == 5
ProbUnits == 4
MaxScore == 5
MaxRows == 2
MaxBatch == 2
MaxBuilderFailures == 1

\* ------------------------------------------------------- program constants
FEATURES == 24
RUL_CRITICAL_THRESHOLD == 30
RUL_WARNING_THRESHOLD == 100

\* -------------------------------------------------------------- utilities
Abs(x) == IF x < 0 THEN 0 - x ELSE x
Min2(a, b) == IF a < b THEN a ELSE b
Max2(a, b) == IF a > b THEN a ELSE b

RECURSIVE SeqSum(_)
SeqSum(s) == IF s = <<>> THEN 0 ELSE Head(s) + SeqSum(Tail(s))

RECURSIVE SeqMax(_)
SeqMax(s) == IF Len(s) = 1 THEN s[1] ELSE Max2(Head(s), SeqMax(Tail(s)))

RECURSIVE Product(_)
Product(s) == IF s = <<>> THEN 1 ELSE Head(s) * Product(Tail(s))

\* Outcome of a Python call: a returned value or a raised exception.
Ret(v) == [tag |-> "return", value |-> v]
Raise(t, m) == [tag |-> "raise", type |-> t, msg |-> m]
Raised(r) == r.tag = "raise"

\* dict[key] = value
Put(d, k, v) == [x \in (DOMAIN d) \cup {k} |-> IF x = k THEN v ELSE d[x]]
EmptyDict == [x \in {} |-> 0]

\* Python's stable sort on a list of [key, item] pairs, largest key first
\* (sorted(..., reverse=True)): equal keys keep their order.
RECURSIVE InsertDesc(_, _)
InsertDesc(s, x) ==
    IF s = <<>> THEN <<x>>
    ELSE IF Head(s).key >= x.key THEN <<Head(s)>> \o InsertDesc(Tail(s), x)
    ELSE <<x>> \o s

RECURSIVE SortDesc(_)
SortDesc(s) ==
    IF s = <<>> THEN <<>>
    ELSE InsertDesc(SortDesc(SubSeq(s, 1, Len(s) - 1)), s[Len(s)])

Items(pairs) == [i \in 1..Len(pairs) |-> pairs[i].item]

\* d.get(k, default)
get_or(d, k, default) == IF k \in DOMAIN d THEN d[k] ELSE default

\* lst[:n]: the first n elements, or all but the last -n when n is negative
SliceTo(lst, n) ==
    IF n >= 0 THEN SubSeq(lst, 1, Min2(n, Len(lst)))
    ELSE SubSeq(lst, 1, Max2(0, Len(lst) + n))

\* ------------------------------------------------- numpy arrays (np.array)
\* An array is its shape and its elements in row-major order. Elements are
\* finite numbers ("0.0", "1.0"), the IEEE specials, or a non-numeric JSON
\* value ("str"), which makes numpy build a non-numeric array.
Finite == {"0.0", "1.0"}
Specials == {"NaN", "Inf", "-Inf"}
NonNumeric == {"str"}

ndarray(shape, flat) == [shape |-> shape, flat |-> flat]
size(a) == Len(a.flat)
isnan(a) == {i \in 1..size(a) : a.flat[i] = "NaN"}
isinf(a) == {i \in 1..size(a) : a.flat[i] \in {"Inf", "-Inf"}}
is_numeric(a) == \A i \in 1..size(a) : a.flat[i] \notin NonNumeric

\* The array with every element base, except element bad at position pos.
Filled(shape, base, pos, bad) ==
    ndarray(shape, [i \in 1..Product(shape) |-> IF i = pos THEN bad ELSE base])

Shapes ==
    {<<>>, <<0>>, <<FEATURES - 1>>, <<FEATURES>>, <<FEATURES + 1>>, <<FEATURES, 1>>}
        \cup {<<r, FEATURES>> : r \in 1..MaxRows}

\* The arrays a request can carry: every shape filled with one finite value,
\* and the shapes whose rows have FEATURES columns (and one that has not)
\* with one special or non-numeric element. Position 6 is index 5.
Arrays ==
    {Filled(s, b, 0, b) : s \in Shapes, b \in Finite}
        \cup {Filled(s, "0.0", p, x) :
                 s \in {<<FEATURES - 1>>, <<FEATURES>>} \cup {<<r, FEATURES>> : r \in 1..MaxRows},
                 p \in {6, FEATURES},
                 x \in Specials \cup NonNumeric}

Zeros == Filled(<<FEATURES>>, "0.0", 0, "0.0")

\* The arrays of the requests that carry further fields
FewArrays ==
    {Zeros, Filled(<<FEATURES - 1>>, "0.0", 0, "0.0"),
     Filled(<<FEATURES>>, "0.0", 6, "NaN"), Filled(<<FEATURES>>, "0.0", 6, "str"),
     Filled(<<2, FEATURES>>, "0.0", 0, "0.0")}

\* The arrays of the machines of a batch
BatchArrays ==
    {Zeros, Filled(<<FEATURES>>, "0.0", 6, "NaN")}

\* ------------------------------------------- ModelManager.validate_input_data
validate_input_data(data) ==
    IF Len(data.shape) = 0
    THEN Raise("IndexError", "tuple index out of range")
    ELSE IF data.shape[Len(data.shape)] # FEATURES
    THEN Raise("ValueError", "Expected 24 features, got "
                                 \o ToString(data.shape[Len(data.shape)]))
    ELSE IF ~is_numeric(data)
    THEN Raise("TypeError", "ufunc 'isnan' not supported for the input types")
    ELSE IF isnan(data) # {} \/ isinf(data) # {}
    THEN Raise("ValueError", "Input data contains NaN or infinite values")
    ELSE Ret(TRUE)

\* --------------------------------------------- AI/pretrained_models.py
\* The environment of the process: which of the training functions raise
\* (a missing library, a training error), and the remaining-life targets
\* that occur in the seeded reference sample. Training is seeded, so every
\* construction in one process sees the same environment.
Creators == {"create_rul_model", "create_failure_model", "create_anomaly_model"}

\* generate_synthetic_turbofan_data: rul_targets = clip(300 - 50 * score +
\* noise, 1, 300). A target below 50 needs a degradation score above 5,
\* which the generator (unit normals plus a trend in [0, 2]) produces with
\* negligible probability; both shapes of the sample are kept.
TrainingTargets == {{300, 150, 149, 50}, {300, 150, 149, 50, 49, 1}}

ExplainerBuilders == {"shap.Explainer(rul)", "shap.Explainer(failure)",
                      "LimeTabularExplainer"}

\* The targets matter only to the classifier, so an environment in which
\* its training raises is listed once.
FewTargets == CHOOSE T \in TrainingTargets : \A U \in TrainingTargets : T \subseteq U

Environments ==
    {e \in {[failing |-> L \cup X, rul_targets |-> T] :
                L \in SUBSET Creators,
                X \in {Y \in SUBSET ExplainerBuilders :
                          Cardinality(Y) <= MaxBuilderFailures},
                T \in TrainingTargets} :
        "create_failure_model" \in e.failing => e.rul_targets = FewTargets}

failure_target(rul) == IF rul < 50 THEN 2 ELSE IF rul < 150 THEN 1 ELSE 0

failure_targets(e) == {failure_target(r) : r \in e.rul_targets}

StandardScaler == [kind |-> "StandardScaler", n_features_in_ |-> FEATURES]

create_rul_model(e) ==
    IF "create_rul_model" \in e.failing
    THEN Raise("Exception", "create_rul_model failed")
    ELSE Ret([model |-> [kind |-> "XGBRegressor"], scaler |-> StandardScaler])

\* LGBMClassifier.fit keeps one class per label that occurs in y_train.
create_failure_model(e) ==
    IF "create_failure_model" \in e.failing
    THEN Raise("Exception", "create_failure_model failed")
    ELSE Ret([model |-> [kind |-> "LGBMClassifier", classes_ |-> failure_targets(e)],
              scaler |-> StandardScaler])

create_anomaly_model(e) ==
    IF "create_anomaly_model" \in e.failing
    THEN Raise("Exception", "create_anomaly_model failed")
    ELSE Ret([model |-> [kind |-> "IsolationForest"], scaler |-> StandardScaler])

\* ------------------------------------------------ AI/model_manager.py
Absent == "absent"

\* An entry of model_info: a ready entry has no 'error' key, an error entry
\* has no 'type' key.
ReadyInfo(type) == [status |-> "ready", type |-> type, error |-> Absent]
ErrorInfo(msg) == [status |-> "error", type |-> Absent, error |-> msg]

Loaded_Silent(self, name, scaler_name, type, created) ==
    IF Raised(created)
    THEN self
    ELSE [models |-> Put(self.models, name, created.value.model),
          scalers |-> Put(self.scalers, scaler_name, created.value.scaler),
          model_info |-> Put(self.model_info, name, ReadyInfo(type))]

Loaded(self, name, scaler_name, type, created) ==
    IF Raised(created)
    THEN [self EXCEPT !.model_info = Put(@, name, ErrorInfo(created.msg))]
    ELSE [models |-> Put(self.models, name, created.value.model),
          scalers |-> Put(self.scalers, scaler_name, created.value.scaler),
          model_info |-> Put(self.model_info, name, ReadyInfo(type))]

load_rul_model_ModelOnly(self, e) ==
    LET created == create_rul_model(e)
    IN  IF Raised(created)
        THEN [self EXCEPT !.model_info = Put(@, "rul_predictor", ErrorInfo(created.msg))]
        ELSE [self EXCEPT !.models = Put(@, "rul_predictor", created.value.model),
                          !.model_info = Put(@, "rul_predictor",
                                             ReadyInfo("XGBoost Regressor"))]

load_rul_model(self, e) ==
    Loaded(self, "rul_predictor", "rul_scaler", "XGBoost Regressor",
           create_rul_model(e))

load_failure_model_NoScaler(self, e) ==
    LET created == create_failure_model(e)
    IN  IF Raised(created)
        THEN [self EXCEPT !.model_info =
                              Put(@, "failure_classifier", ErrorInfo(created.msg))]
        ELSE [self EXCEPT !.models = Put(@, "failure_classifier", created.value.model),
                          !.model_info = Put(@, "failure_classifier",
                                             ReadyInfo("LightGBM Classifier"))]

load_failure_model(self, e) ==
    Loaded(self, "failure_classifier", "failure_scaler", "LightGBM Classifier",
           create_failure_model(e))

load_anomaly_model(self, e) ==
    Loaded(self, "anomaly_detector", "anomaly_scaler", "Isolation Forest",
           create_anomaly_model(e))

load_all_models(self, e) ==
    load_anomaly_model(load_failure_model(load_rul_model(self, e), e), e)

\* ModelManager.__init__
ModelManager(e) ==
    load_all_models([models |-> EmptyDict, scalers |-> EmptyDict,
                     model_info |-> EmptyDict], e)

\* scaler.transform(sensor_data.reshape(1, -1)): scikit-learn's StandardScaler
\* accepts NaN and raises ValueError for a non-numeric or infinite element
\* and for a row that does not have n_features_in_ columns.
transform(scaler, sensor_data) ==
    IF ~is_numeric(sensor_data)
    THEN Raise("ValueError", "could not convert string to float")
    ELSE IF isinf(sensor_data) # {}
    THEN Raise("ValueError", "Input X contains infinity")
    ELSE IF size(sensor_data) # scaler.n_features_in_
    THEN Raise("ValueError", "X has " \o ToString(size(sensor_data))
                   \o " features, but StandardScaler is expecting 24 features")
    ELSE Ret(sensor_data)

\* self.scalers[key].transform(...), a KeyError when the key is missing
scaled(self, key, sensor_data) ==
    IF key \notin DOMAIN self.scalers
    THEN Raise("KeyError", key)
    ELSE transform(self.scalers[key], sensor_data)

risk_level_Swapped(rul_prediction) ==
    IF rul_prediction <= 30 THEN "High"
    ELSE IF rul_prediction <= 100 THEN "Medium"
    ELSE "Low"

risk_level(rul_prediction) ==
    IF rul_prediction < 30 THEN "High"
    ELSE IF rul_prediction < 100 THEN "Medium"
    ELSE "Low"

\* min(0.95, max(0.6, 1.0 - abs(rul_prediction - 100) / 200)), times 200
prediction_confidence_NoFloor(rul_prediction) ==
    Min2(190, 200 - Abs(rul_prediction - 100))

prediction_confidence(rul_prediction) ==
    Min2(190, Max2(120, 200 - Abs(rul_prediction - 100)))

\* ModelManager.predict_rul; out.rul is what the regressor returns for the
\* scaled row.
predict_rul(self, sensor_data, out) ==
    IF "rul_predictor" \notin DOMAIN self.models
    THEN Raise("ValueError", "RUL model not available")
    ELSE LET scaled_data == scaled(self, "rul_scaler", sensor_data)
         IN  IF Raised(scaled_data) THEN scaled_data
             ELSE Ret([rul_prediction |-> out.rul,
                       metadata |-> [model_type |-> "XGBoost",
                                     prediction_confidence |->
                                         prediction_confidence(out.rul),
                                     risk_level |-> risk_level(out.rul)]])

\* ------------------------------------------ LightGBM / scikit-learn calls
RECURSIVE SortedSeq(_)
SortedSeq(S) ==
    IF S = {} THEN <<>>
    ELSE LET m == CHOOSE x \in S : \A y \in S : x <= y
         IN  <<m>> \o SortedSeq(S \ {m})

\* np.argmax: the first index (from 1) of the largest entry
argmax(p) == CHOOSE i \in 1..Len(p) :
                 /\ \A j \in 1..Len(p) : p[j] <= p[i]
                 /\ \A j \in 1..(i - 1) : p[j] < p[i]

\* LGBMClassifier.predict: the label of the most probable class
LGBMClassifier_predict(model, proba) == SortedSeq(model.classes_)[argmax(proba)]

\* IsolationForest.predict: -1 where decision_function < 0, else 1
IsolationForest_predict(score) == IF score < 0 THEN 0 - 1 ELSE 1

classes == <<"Low Risk", "Medium Risk", "High Risk">>

\* {classes[i]: float(prob) for i, prob in enumerate(risk_probabilities)}
probabilities_of(risk_probabilities) ==
    [c \in {classes[i] : i \in 1..Len(risk_probabilities)} |->
        risk_probabilities[CHOOSE i \in 1..Len(risk_probabilities) : classes[i] = c]]

confidence_First(risk_probabilities) == risk_probabilities[1]

\* float(max(risk_probabilities))
confidence_of(risk_probabilities) == SeqMax(risk_probabilities)

\* ModelManager.predict_failure_risk; out.proba is the row predict_proba
\* returns for the scaled row.
predict_failure_risk(self, sensor_data, out) ==
    IF "failure_classifier" \notin DOMAIN self.models
    THEN Raise("ValueError", "Failure classification model not available")
    ELSE LET scaled_data == scaled(self, "failure_scaler", sensor_data)
             risk_prediction ==
                 LGBMClassifier_predict(self.models["failure_classifier"], out.proba)
         IN  IF Raised(scaled_data) THEN scaled_data
             ELSE IF Len(out.proba) > Len(classes) \/ risk_prediction >= Len(classes)
             THEN Raise("IndexError", "list index out of range")
             ELSE Ret([risk_class |-> classes[risk_prediction + 1],
                       metadata |-> [model_type |-> "LightGBM",
                                     probabilities |-> probabilities_of(out.proba),
                                     confidence |-> confidence_of(out.proba)]])

is_anomaly_Inverted(anomaly_prediction) == anomaly_prediction = 1

\* bool(anomaly_prediction == -1)
is_anomaly_of(anomaly_prediction) == anomaly_prediction = 0 - 1

\* ModelManager.detect_anomaly; out.score is what decision_function returns
\* for the scaled row.
detect_anomaly(self, sensor_data, out) ==
    IF "anomaly_detector" \notin DOMAIN self.models
    THEN Raise("ValueError", "Anomaly detection model not available")
    ELSE LET scaled_data == scaled(self, "anomaly_scaler", sensor_data)
             anomaly_prediction == IsolationForest_predict(out.score)
         IN  IF Raised(scaled_data) THEN scaled_data
             ELSE Ret([is_anomaly |-> is_anomaly_of(anomaly_prediction),
                       metadata |-> [model_type |-> "Isolation Forest",
                                     anomaly_score |-> out.score,
                                     threshold |-> 0,
                                     confidence |-> Abs(out.score)]])

\* ModelManager.get_models_status
get_models_status(self) ==
    [models |-> self.model_info,
     total_models |-> Cardinality(DOMAIN self.models),
     healthy_models |-> Cardinality({m \in DOMAIN self.model_info :
                                         self.model_info[m].status = "ready"})]

\* ------------------------------------------------ AI/explainability.py
\* ModelExplainer._init_shap_explainers: one try block around both builds,
\* so an exception in the first leaves the block before the second.
init_shap_explainers(self, e) ==
    LET scalers == DOMAIN self.model_manager.scalers
        rul == IF "rul_scaler" \in scalers THEN {"rul"} ELSE {}
        failure == IF "failure_scaler" \in scalers THEN {"failure"} ELSE {}
    IN  IF rul # {} /\ "shap.Explainer(rul)" \in e.failing
        THEN self
        ELSE IF failure # {} /\ "shap.Explainer(failure)" \in e.failing
        THEN [self EXCEPT !.shap_explainers = @ \cup rul]
        ELSE [self EXCEPT !.shap_explainers = @ \cup rul \cup failure]

\* ModelExplainer._init_lime_explainers
init_lime_explainers(self, e) ==
    IF "LimeTabularExplainer" \in e.failing
    THEN self
    ELSE [self EXCEPT !.lime_explainers = @ \cup {"tabular"}]

\* ModelExplainer._initialize_explainers
initialize_explainers(self, e) ==
    init_lime_explainers(init_shap_explainers(self, e), e)

\* ModelExplainer.__init__
ModelExplainer(model_manager, e) ==
    initialize_explainers([model_manager |-> model_manager,
                           shap_explainers |-> {},
                           lime_explainers |-> {}], e)

\* ModelExplainer._get_feature_names: setting_1..3, sensor_1..21. A string
\* that the code splits at its spaces is kept as the sequence of its words,
\* a feature name being a single word.
feature_names ==
    [i \in 1..FEATURES |->
        IF i <= 3 THEN <<"setting_" \o ToString(i)>>
        ELSE <<"sensor_" \o ToString(i - 3)>>]

\* The attributes of the engine after a call of get_shap_explanation,
\* get_lime_explanation or get_feature_impact_analysis: none of them assigns
\* to self.shap_explainers or self.lime_explainers, whatever the outcome.
engine_after_Detached(self, explanation) ==
    IF "error" \in DOMAIN explanation
    THEN [self EXCEPT !.shap_explainers = {}, !.lime_explainers = {}]
    ELSE self

engine_after(self, explanation) == self

\* The dict the except branch of an explanation method returns
ErrorPayload_Bare(msg, model_type, explanation_type) == [error |-> msg]

ErrorPayload(msg, model_type, explanation_type) ==
    [error |-> msg, model_type |-> model_type, explanation_type |-> explanation_type]

\* 'impact': 'positive' if value > 0 else 'negative'
impact(value) == IF value > 0 THEN "positive" ELSE "negative"

\* feature_importance.sort(key=lambda x: x['abs_importance'], reverse=True):
\* Python's sort is stable, also with reverse=True.
sort_by_abs_importance(records) ==
    Items(SortDesc([i \in 1..Len(records) |->
              [key |-> records[i].abs_importance, item |-> records[i]]]))

\* ModelExplainer._generate_shap_summary: the sentence is kept as its parts.
generate_shap_summary_Inverted(top_features) ==
    IF top_features = <<>>
    THEN [text |-> "No significant features identified."]
    ELSE [text |-> "The most influential factor is",
          feature |-> top_features[1].feature,
          impact_word |-> IF top_features[1].impact = "positive"
                          THEN "decreases" ELSE "increases",
          other_features |->
              IF Len(top_features) > 1
              THEN [i \in 1..(Min2(3, Len(top_features)) - 1) |->
                       top_features[i + 1].feature]
              ELSE <<>>]

generate_shap_summary(top_features) ==
    IF top_features = <<>>
    THEN [text |-> "No significant features identified."]
    ELSE [text |-> "The most influential factor is",
          feature |-> top_features[1].feature,
          impact_word |-> IF top_features[1].impact = "positive"
                          THEN "increases" ELSE "decreases",
          other_features |->
              IF Len(top_features) > 1
              THEN [i \in 1..(Min2(3, Len(top_features)) - 1) |->
                       top_features[i + 1].feature]
              ELSE <<>>]

\* ModelExplainer._generate_lime_summary
generate_lime_summary(top_features) ==
    IF top_features = <<>>
    THEN [text |-> "No significant local features identified."]
    ELSE [text |-> "For this specific instance",
          feature |-> top_features[1].feature,
          impact_word |-> IF top_features[1].impact = "positive"
                          THEN "increases" ELSE "decreases"]

\* values = values[:, 1] ("Use positive class for binary classification"):
\* the column of class index 1
designated_class == 2

\* 'base_value': float(base_value), with base_value = base_values[0] or 0
base_value_Zero(shap_values) == 0

base_value_of(shap_values) == shap_values.base_values

\* ModelExplainer.get_shap_explanation; out.shap[model_type] is the
\* Explanation the attached explainer returns for the scaled row: one value
\* per feature and a scalar base value when the model has one output
\* (outputs = 0: the regressor, the raw score of a two-class classifier),
\* one value per feature and class and one base value per class otherwise.
\* float(base_value) raises TypeError for the array of base values.
get_shap_explanation(self, model_type, input_data, max_display, out) ==
    LET scaler_key == model_type \o "_scaler"
        scalers == self.model_manager.scalers
        scaled_data == IF scaler_key \in DOMAIN scalers
                       THEN transform(scalers[scaler_key], input_data)
                       ELSE Ret(input_data)
        shap_values == out.shap[model_type]
        multi_class == shap_values.outputs > 0
        values == IF multi_class
                  THEN [i \in 1..Len(shap_values.values) |->
                           shap_values.values[i][designated_class]]
                  ELSE shap_values.values
        feature_importance ==
            [i \in 1..Min2(Len(feature_names), Len(values)) |->
                [feature |-> feature_names[i],
                 shap_value |-> values[i],
                 abs_importance |-> Abs(values[i]),
                 impact |-> impact(values[i])]]
        sorted == sort_by_abs_importance(feature_importance)
    IN  IF model_type \notin self.shap_explainers
        THEN ErrorPayload("SHAP explainer not available for " \o model_type,
                          model_type, "SHAP")
        ELSE IF Raised(scaled_data)
        THEN ErrorPayload(scaled_data.msg, model_type, "SHAP")
        ELSE IF multi_class
        THEN ErrorPayload("only length-1 arrays can be converted to Python scalars",
                          model_type, "SHAP")
        ELSE [model_type |-> model_type,
              base_value |-> base_value_of(shap_values),
              feature_importance |-> SliceTo(sorted, max_display),
              total_features |-> Len(feature_names),
              explanation_type |-> "SHAP",
              summary |-> generate_shap_summary(SliceTo(sorted, 5))]

\* The prediction function get_lime_explanation hands to LIME: one registry
\* call per perturbed row; the first call that raises ends the sampling.
predict_fn(self, model_type, out) ==
    LET row == Filled(<<FEATURES>>, "0.0", 0, "0.0")
    IN  IF model_type = "rul"
        THEN predict_rul(self.model_manager, row, out)
        ELSE predict_failure_risk(self.model_manager, row, out)

\* explanation.predict_proba[1] if len(explanation.predict_proba) > 1 else
\* explanation.predict_proba[0]: predict_fn's row for the instance itself,
\* [1 - prob, prob] with prob the sigmoid of the RUL value for 'rul', the
\* class probabilities otherwise.
local_prediction(model_type, out) ==
    IF model_type = "rul"
    THEN [of |-> "sigmoid(rul / 100)", value |-> out.rul]
    ELSE [of |-> "probability",
          value |-> IF Len(out.proba) > 1 THEN out.proba[2] ELSE out.proba[1]]

\* explainer.explain_instance(input_data, predict_fn, num_features) and
\* explanation.as_list(): at most num_features pairs of a feature
\* description and a weight, largest magnitude first; with no feature to
\* select (num_features <= 0) the local linear fit raises ValueError.
explain_instance(out, num_features) ==
    IF num_features <= 0
    THEN Raise("ValueError", "Found array with 0 feature(s) while a minimum of 1 is required")
    ELSE Ret(SubSeq(out.lime, 1, Min2(num_features, Len(out.lime))))

\* ModelExplainer.get_lime_explanation; explain_instance takes one row of
\* FEATURES values.
get_lime_explanation_Partial(self, input_data, model_type, num_features, out) ==
    LET explanation == explain_instance(out, num_features)
        lime_features ==
            [i \in 1..Len(explanation.value) |->
                [feature |-> explanation.value[i].feature,
                 importance |-> explanation.value[i].importance,
                 abs_importance |-> Abs(explanation.value[i].importance),
                 impact |-> impact(explanation.value[i].importance)]]
        sorted == sort_by_abs_importance(lime_features)
    IN  IF "tabular" \notin self.lime_explainers
        THEN ErrorPayload("LIME explainer not available", model_type, "LIME")
        ELSE IF input_data.shape # <<FEATURES>>
        THEN ErrorPayload("explain_instance failed", model_type, "LIME")
        ELSE IF Raised(explanation)
        THEN ErrorPayload(explanation.msg, model_type, "LIME")
        ELSE [model_type |-> model_type,
              feature_importance |-> sorted,
              local_prediction |-> local_prediction(model_type, out),
              explanation_type |-> "LIME",
              summary |-> generate_lime_summary(SliceTo(sorted, 3))]

get_lime_explanation(self, input_data, model_type, num_features, out) ==
    LET sampled == predict_fn(self, model_type, out)
        explanation == explain_instance(out, num_features)
        lime_features ==
            [i \in 1..Len(explanation.value) |->
                [feature |-> explanation.value[i].feature,
                 importance |-> explanation.value[i].importance,
                 abs_importance |-> Abs(explanation.value[i].importance),
                 impact |-> impact(explanation.value[i].importance)]]
        sorted == sort_by_abs_importance(lime_features)
    IN  IF "tabular" \notin self.lime_explainers
        THEN ErrorPayload("LIME explainer not available", model_type, "LIME")
        ELSE IF input_data.shape # <<FEATURES>>
        THEN ErrorPayload("explain_instance failed", model_type, "LIME")
        ELSE IF Raised(sampled)
        THEN ErrorPayload(sampled.msg, model_type, "LIME")
        ELSE IF Raised(explanation)
        THEN ErrorPayload(explanation.msg, model_type, "LIME")
        ELSE [model_type |-> model_type,
              feature_importance |-> sorted,
              local_prediction |-> local_prediction(model_type, out),
              explanation_type |-> "LIME",
              summary |-> generate_lime_summary(SliceTo(sorted, 3))]

\* {f['feature'] for f in explanation.get('feature_importance', [])[:5]}
top_features(explanation) ==
    LET top == SliceTo(get_or(explanation, "feature_importance", <<>>), 5)
    IN  {top[i].feature : i \in 1..Len(top)}

\* f['feature'].split(' ')[0]
first_word(description) == <<Head(description)>>

\* ModelExplainer._find_consensus_features: list(set.intersection(...)), a
\* list in the arbitrary order of the set, kept as the set.
find_consensus_features(shap_rul, shap_failure, lime_exp) ==
    LET shap_rul_features == top_features(shap_rul)
        shap_failure_features == top_features(shap_failure)
        lime_features == {first_word(f) : f \in top_features(lime_exp)}
    IN  shap_rul_features \cap shap_failure_features \cap lime_features

\* ModelExplainer.get_feature_impact_analysis
get_feature_impact_analysis_StopAtError(self, input_data, out) ==
    LET shap_rul == get_shap_explanation(self, "rul", input_data, 10, out)
    IN  IF "error" \in DOMAIN shap_rul
        THEN [error |-> shap_rul.error]
        ELSE [shap_rul |-> shap_rul,
              shap_failure |-> get_shap_explanation(self, "failure", input_data, 10, out),
              lime_local |-> get_lime_explanation(self, input_data, "failure", 10, out),
              consensus_features |-> {}]

get_feature_impact_analysis(self, input_data, out) ==
    LET shap_rul == get_shap_explanation(self, "rul", input_data, 10, out)
        shap_failure == get_shap_explanation(self, "failure", input_data, 10, out)
        lime_explanation == get_lime_explanation(self, input_data, "failure", 10, out)
    IN  [shap_rul |-> shap_rul,
         shap_failure |-> shap_failure,
         lime_local |-> lime_explanation,
         consensus_features |->
             find_consensus_features(shap_rul, shap_failure, lime_explanation)]

\* ------------------------------------------------------- request handling
\* jsonify(body), status
jsonify(body, code) == [http |-> code, json |-> body]

\* A handler's outcome: its response and the registry or engine calls it
\* made, in order.
Handled(response, log) == [response |-> response, calls |-> log]

Call(registry, fn, data, result) ==
    [registry |-> registry, fn |-> fn, data |-> data, result |-> result]

\* if not data or 'sensor_data' not in data
no_sensor_data(data) == "sensor_data" \notin DOMAIN data

MissingSensorData == jsonify([error |-> "Missing sensor_data in request"], 400)

\* except ValueError / except Exception of the single-vector handlers
on_exception(exc) ==
    IF exc.type = "ValueError"
    THEN jsonify([error |-> exc.msg, status |-> "validation_error"], 400)
    ELSE jsonify([error |-> "Internal server error", status |-> "error"], 500)

\* ----------------------------------------------- api/prediction_api.py
\* predict_rul of prediction_api (route /rul)
prediction_api_predict_rul(mm, data, out) ==
    IF no_sensor_data(data) THEN Handled(MissingSensorData, <<>>)
    ELSE LET sensor_data == data.sensor_data
             valid == validate_input_data(sensor_data)
             predicted == predict_rul(mm, sensor_data, out)
             log == <<Call("prediction", "predict_rul", sensor_data, predicted)>>
         IN  IF Raised(valid) THEN Handled(on_exception(valid), <<>>)
             ELSE IF Raised(predicted) THEN Handled(on_exception(predicted), log)
             ELSE Handled(jsonify(
                     [rul_prediction |-> predicted.value.rul_prediction,
                      risk_level |-> predicted.value.metadata.risk_level,
                      confidence |-> predicted.value.metadata.prediction_confidence,
                      model_info |-> [type |-> predicted.value.metadata.model_type],
                      status |-> "success"], 200), log)

\* predict_failure_risk of prediction_api (route /failure-risk)
prediction_api_predict_failure_risk(mm, data, out) ==
    IF no_sensor_data(data) THEN Handled(MissingSensorData, <<>>)
    ELSE LET sensor_data == data.sensor_data
             valid == validate_input_data(sensor_data)
             predicted == predict_failure_risk(mm, sensor_data, out)
             log == <<Call("prediction", "predict_failure_risk", sensor_data, predicted)>>
         IN  IF Raised(valid) THEN Handled(on_exception(valid), <<>>)
             ELSE IF Raised(predicted) THEN Handled(on_exception(predicted), log)
             ELSE Handled(jsonify(
                     [risk_class |-> predicted.value.risk_class,
                      probabilities |-> predicted.value.metadata.probabilities,
                      confidence |-> predicted.value.metadata.confidence,
                      model_info |-> [type |-> predicted.value.metadata.model_type],
                      status |-> "success"], 200), log)

\* The body of the per-machine try block of batch_predict
batch_machine(mm, machine, prediction_types, out) ==
    LET machine_id == IF "machine_id" \in DOMAIN machine
                      THEN machine.machine_id ELSE "unknown"
        sensor_data == machine.sensor_data
        valid == validate_input_data(sensor_data)
        rul == predict_rul(mm, sensor_data, out)
        failure == predict_failure_risk(mm, sensor_data, out)
        anomaly == detect_anomaly(mm, sensor_data, out)
        rul_log == IF "rul" \in prediction_types
                   THEN <<Call("prediction", "predict_rul", sensor_data, rul)>>
                   ELSE <<>>
        failure_log == IF "failure_risk" \in prediction_types
                       THEN <<Call("prediction", "predict_failure_risk",
                                   sensor_data, failure)>>
                       ELSE <<>>
        anomaly_log == IF "anomaly" \in prediction_types
                       THEN <<Call("prediction", "detect_anomaly", sensor_data, anomaly)>>
                       ELSE <<>>
        failed(exc, log) ==
            Handled([machine_id |-> machine_id, error |-> exc.msg, status |-> "error"],
                    log)
        p0 == EmptyDict
        p1 == IF "rul" \in prediction_types
              THEN Put(p0, "rul",
                       [value |-> rul.value.rul_prediction,
                        risk_level |-> rul.value.metadata.risk_level,
                        confidence |-> rul.value.metadata.prediction_confidence])
              ELSE p0
        p2 == IF "failure_risk" \in prediction_types
              THEN Put(p1, "failure_risk",
                       [class |-> failure.value.risk_class,
                        probabilities |-> failure.value.metadata.probabilities,
                        confidence |-> failure.value.metadata.confidence])
              ELSE p1
        p3 == IF "anomaly" \in prediction_types
              THEN Put(p2, "anomaly",
                       [is_anomaly |-> anomaly.value.is_anomaly,
                        score |-> anomaly.value.metadata.anomaly_score,
                        confidence |-> anomaly.value.metadata.confidence])
              ELSE p2
    IN  IF Raised(valid) THEN failed(valid, <<>>)
        ELSE IF "rul" \in prediction_types /\ Raised(rul) THEN failed(rul, rul_log)
        ELSE IF "failure_risk" \in prediction_types /\ Raised(failure)
        THEN failed(failure, rul_log \o failure_log)
        ELSE IF "anomaly" \in prediction_types /\ Raised(anomaly)
        THEN failed(anomaly, rul_log \o failure_log \o anomaly_log)
        ELSE Handled([machine_id |-> machine_id, predictions |-> p3,
                      status |-> "success"],
                     rul_log \o failure_log \o anomaly_log)

\* The loop of batch_predict over machines; machine['sensor_data'] is read
\* before the per-machine try block, so a machine without it ends the loop
\* with a KeyError.
RECURSIVE batch_loop(_, _, _, _, _, _)
batch_loop(mm, machines, prediction_types, outs, results, log) ==
    IF machines = <<>>
    THEN [raised |-> FALSE, results |-> results, calls |-> log]
    ELSE IF "sensor_data" \notin DOMAIN Head(machines)
    THEN [raised |-> TRUE, results |-> results, calls |-> log]
    ELSE LET one == batch_machine(mm, Head(machines), prediction_types, Head(outs))
         IN  batch_loop(mm, Tail(machines), prediction_types, Tail(outs),
                        Append(results, one.response), log \o one.calls)

\* batch_predict (route /batch); data.prediction_types defaults to rul and
\* failure_risk.
batch_predict(mm, data, outs) ==
    IF "machines" \notin DOMAIN data
    THEN Handled(jsonify([error |-> "Missing machines data in request"], 400), <<>>)
    ELSE LET prediction_types == IF "prediction_types" \in DOMAIN data
                                 THEN data.prediction_types
                                 ELSE {"rul", "failure_risk"}
             loop == batch_loop(mm, data.machines, prediction_types, outs, <<>>, <<>>)
         IN  IF loop.raised
             THEN Handled(jsonify([error |-> "Internal server error",
                                   status |-> "error"], 500), loop.calls)
             ELSE Handled(jsonify(
                     [results |-> loop.results,
                      total_machines |-> Len(data.machines),
                      successful_predictions |->
                          Cardinality({i \in 1..Len(loop.results) :
                                           loop.results[i].status = "success"}),
                      status |-> "completed"], 200), loop.calls)

\* health_check of prediction_api (route /health)
prediction_api_health_check(mm) ==
    Handled(jsonify([service |-> "Prediction API", status |-> "healthy",
                     models |-> get_models_status(mm)], 200), <<>>)

\* -------------------------------------------------- api/anomaly_api.py
\* An anomaly score counts half units: abs(score) > 2.0 is Abs(score) > 4.
severity(anomaly_score) ==
    IF Abs(anomaly_score) > 4 THEN "critical"
    ELSE IF Abs(anomaly_score) > 2 THEN "high"
    ELSE IF Abs(anomaly_score) > 1 THEN "medium"
    ELSE "low"

get_or_unknown(d, k) == IF k \in DOMAIN d THEN d[k] ELSE "unknown"

\* detect_anomaly of anomaly_api (route /detect)
anomaly_api_detect_anomaly(mm, data, out) ==
    IF no_sensor_data(data) THEN Handled(MissingSensorData, <<>>)
    ELSE LET sensor_data == data.sensor_data
             valid == validate_input_data(sensor_data)
             detected == detect_anomaly(mm, sensor_data, out)
             log == <<Call("anomaly", "detect_anomaly", sensor_data, detected)>>
         IN  IF Raised(valid) THEN Handled(on_exception(valid), <<>>)
             ELSE IF Raised(detected) THEN Handled(on_exception(detected), log)
             ELSE Handled(jsonify(
                     [is_anomaly |-> detected.value.is_anomaly,
                      anomaly_score |-> detected.value.metadata.anomaly_score,
                      severity |-> severity(detected.value.metadata.anomaly_score),
                      confidence |-> detected.value.metadata.confidence,
                      model_info |-> [type |-> detected.value.metadata.model_type],
                      status |-> "success"], 200), log)

\* The per-point try block of batch_detect_anomalies
batch_point(mm, point, out) ==
    LET machine_id == get_or_unknown(point, "machine_id")
        sensor_data == point.sensor_data
        valid == validate_input_data(sensor_data)
        detected == detect_anomaly(mm, sensor_data, out)
        log == <<Call("anomaly", "detect_anomaly", sensor_data, detected)>>
        failed(msg, made) ==
            Handled([machine_id |-> machine_id, error |-> msg, status |-> "error"], made)
    IN  IF "sensor_data" \notin DOMAIN point THEN failed("'sensor_data'", <<>>)
        ELSE IF Raised(valid) THEN failed(valid.msg, <<>>)
        ELSE IF Raised(detected) THEN failed(detected.msg, log)
        ELSE Handled([machine_id |-> machine_id,
                      is_anomaly |-> detected.value.is_anomaly,
                      anomaly_score |-> detected.value.metadata.anomaly_score,
                      severity |-> severity(detected.value.metadata.anomaly_score),
                      confidence |-> detected.value.metadata.confidence,
                      status |-> "success"], log)

RECURSIVE batch_detect_loop(_, _, _, _, _)
batch_detect_loop(mm, data_points, outs, results, log) ==
    IF data_points = <<>>
    THEN [results |-> results, calls |-> log]
    ELSE LET one == batch_point(mm, Head(data_points), Head(outs))
         IN  batch_detect_loop(mm, Tail(data_points), Tail(outs),
                               Append(results, one.response), log \o one.calls)

\* batch_detect_anomalies (route /batch-detect); a rate a / n is <<a, n>>.
batch_detect_anomalies(mm, data, outs) ==
    IF "data_points" \notin DOMAIN data
    THEN Handled(jsonify([error |-> "Missing data_points in request"], 400), <<>>)
    ELSE LET loop == batch_detect_loop(mm, data.data_points, outs, <<>>, <<>>)
             ok == {i \in 1..Len(loop.results) : loop.results[i].status = "success"}
             anomaly_count == Cardinality({i \in ok : loop.results[i].is_anomaly})
         IN  Handled(jsonify(
                 [results |-> loop.results,
                  summary |-> [total_points |-> Len(data.data_points),
                               anomalies_detected |-> anomaly_count,
                               anomaly_rate |-> <<anomaly_count, Len(data.data_points)>>,
                               successful_analyses |-> Cardinality(ok)],
                  status |-> "completed"], 200), loop.calls)

\* machine_stats[machine_id] of analyze_anomaly_trends, kept in insertion order
stats_add(stats, machine_id, is_anomaly) ==
    LET hit == {i \in 1..Len(stats) : stats[i].machine_id = machine_id}
        inc == IF is_anomaly THEN 1 ELSE 0
    IN  IF hit = {}
        THEN Append(stats, [machine_id |-> machine_id, total_points |-> 1,
                            anomalies |-> inc])
        ELSE [i \in 1..Len(stats) |->
                 IF i \in hit
                 THEN [stats[i] EXCEPT !.total_points = @ + 1, !.anomalies = @ + inc]
                 ELSE stats[i]]

\* The loop of analyze_anomaly_trends: a point whose try block raises is
\* skipped (except Exception: continue).
RECURSIVE trend_loop(_, _, _, _, _, _)
trend_loop(mm, points, outs, timeline, stats, log) ==
    IF points = <<>>
    THEN [timeline |-> timeline, stats |-> stats, calls |-> log]
    ELSE LET point == Head(points)
             sensor_data == point.sensor_data
             valid == validate_input_data(sensor_data)
             detected == detect_anomaly(mm, sensor_data, Head(outs))
             made == <<Call("anomaly", "detect_anomaly", sensor_data, detected)>>
             machine_id == get_or_unknown(point, "machine_id")
         IN  IF "sensor_data" \notin DOMAIN point \/ Raised(valid)
             THEN trend_loop(mm, Tail(points), Tail(outs), timeline, stats, log)
             ELSE IF Raised(detected)
             THEN trend_loop(mm, Tail(points), Tail(outs), timeline, stats, log \o made)
             ELSE trend_loop(mm, Tail(points), Tail(outs),
                      Append(timeline,
                             [timestamp |-> point.timestamp,
                              machine_id |-> machine_id,
                              is_anomaly |-> detected.value.is_anomaly,
                              anomaly_score |-> detected.value.metadata.anomaly_score,
                              severity |->
                                  severity(detected.value.metadata.anomaly_score)]),
                      stats_add(stats, machine_id, detected.value.is_anomaly),
                      log \o made)

\* sorted(machine_stats.items(), key=anomaly_rate, reverse=True)[:5]; the
\* rates are compared over their common denominator.
high_risk_machines(stats) ==
    LET denominator == Product([i \in 1..Len(stats) |-> stats[i].total_points])
        ranked == Items(SortDesc([i \in 1..Len(stats) |->
                     [key |-> stats[i].anomalies * (denominator \div stats[i].total_points),
                      item |-> [machine_id |-> stats[i].machine_id,
                                anomaly_rate |-> <<stats[i].anomalies,
                                                   stats[i].total_points>>,
                                total_anomalies |-> stats[i].anomalies]]]))
    IN  SubSeq(ranked, 1, Min2(5, Len(ranked)))

\* time_series_data.sort(key=timestamp): stable, earliest first
sort_by_timestamp(points) ==
    Items(SortDesc([i \in 1..Len(points) |->
                       [key |-> 0 - points[i].timestamp, item |-> points[i]]]))

\* analyze_anomaly_trends (route /trend-analysis); outs[i] belongs to the
\* i-th point in timestamp order.
analyze_anomaly_trends(mm, data, outs) ==
    IF "time_series_data" \notin DOMAIN data
    THEN Handled(jsonify([error |-> "Missing time_series_data in request"], 400), <<>>)
    ELSE LET time_series_data == sort_by_timestamp(data.time_series_data)
             loop == trend_loop(mm, time_series_data, outs, <<>>, <<>>, <<>>)
             total == SeqSum([i \in 1..Len(loop.stats) |-> loop.stats[i].anomalies])
         IN  Handled(jsonify(
                 [anomaly_timeline |-> loop.timeline,
                  machine_statistics |->
                      [i \in 1..Len(loop.stats) |->
                          [machine_id |-> loop.stats[i].machine_id,
                           total_points |-> loop.stats[i].total_points,
                           anomalies |-> loop.stats[i].anomalies,
                           anomaly_rate |-> <<loop.stats[i].anomalies,
                                              loop.stats[i].total_points>>]],
                  high_risk_machines |-> high_risk_machines(loop.stats),
                  summary |-> [total_machines |-> Len(loop.stats),
                               total_data_points |-> Len(time_series_data),
                               total_anomalies |-> total,
                               overall_anomaly_rate |-> <<total, Len(time_series_data)>>],
                  status |-> "completed"], 200), loop.calls)

\* health_check of anomaly_api (route /health): a detection on a random
\* finite vector.
anomaly_api_health_check(mm, out) ==
    LET test_data == Filled(<<FEATURES>>, "1.0", 0, "1.0")
        detected == detect_anomaly(mm, test_data, out)
        log == <<Call("anomaly", "detect_anomaly", test_data, detected)>>
    IN  IF Raised(detected)
        THEN Handled(jsonify([service |-> "Anomaly Detection API",
                              status |-> "unhealthy", error |-> detected.msg], 500), log)
        ELSE Handled(jsonify([service |-> "Anomaly Detection API",
                              status |-> "healthy",
                              model_available |-> "anomaly_detector" \in DOMAIN mm.models,
                              test_result |->
                                  [anomaly_detected |-> detected.value.is_anomaly,
                                   confidence |-> detected.value.metadata.confidence]],
                             200), log)

\* ------------------------------------------- api/explainability_api.py
ModelTypes == {"rul", "failure"}

\* shap_explanation.update({..., 'status': 'success'})
with_success(explanation) == Put(explanation, "status", "success")

\* get_shap_explanation of explainability_api (route /shap)
explainability_api_get_shap_explanation(mm, engine, data, out) ==
    IF no_sensor_data(data) THEN Handled(MissingSensorData, <<>>)
    ELSE LET sensor_data == data.sensor_data
             model_type == get_or(data, "model_type", "rul")
             max_features == get_or(data, "max_features", 10)
             valid == validate_input_data(sensor_data)
             shap_explanation ==
                 get_shap_explanation(engine, model_type, sensor_data, max_features, out)
             log == <<Call("explainability", "get_shap_explanation", sensor_data,
                           shap_explanation)>>
         IN  IF Raised(valid) THEN Handled(on_exception(valid), <<>>)
             ELSE IF model_type \notin ModelTypes
             THEN Handled(jsonify(
                     [error |-> "model_type must be \"rul\" or \"failure\""], 400), <<>>)
             ELSE Handled(jsonify(with_success(shap_explanation), 200), log)

\* get_lime_explanation of explainability_api (route /lime)
explainability_api_get_lime_explanation(mm, engine, data, out) ==
    IF no_sensor_data(data) THEN Handled(MissingSensorData, <<>>)
    ELSE LET sensor_data == data.sensor_data
             model_type == get_or(data, "model_type", "failure")
             num_features == get_or(data, "num_features", 10)
             valid == validate_input_data(sensor_data)
             lime_explanation ==
                 get_lime_explanation(engine, sensor_data, model_type, num_features, out)
             log == <<Call("explainability", "get_lime_explanation", sensor_data,
                           lime_explanation)>>
         IN  IF Raised(valid) THEN Handled(on_exception(valid), <<>>)
             ELSE IF model_type \notin ModelTypes
             THEN Handled(jsonify(
                     [error |-> "model_type must be \"rul\" or \"failure\""], 400), <<>>)
             ELSE Handled(jsonify(with_success(lime_explanation), 200), log)

\* get_comprehensive_explanation (route /comprehensive)
get_comprehensive_explanation(mm, engine, data, out) ==
    IF no_sensor_data(data) THEN Handled(MissingSensorData, <<>>)
    ELSE LET sensor_data == data.sensor_data
             valid == validate_input_data(sensor_data)
             comprehensive_analysis == get_feature_impact_analysis(engine, sensor_data, out)
             log == <<Call("explainability", "get_feature_impact_analysis", sensor_data,
                           comprehensive_analysis)>>
         IN  IF Raised(valid) THEN Handled(on_exception(valid), <<>>)
             ELSE Handled(jsonify(with_success(comprehensive_analysis), 200), log)

\* health_check of explainability_api (route /health): a SHAP explanation
\* of a random finite vector.
explainability_api_health_check(engine, out) ==
    LET test_data == Filled(<<FEATURES>>, "1.0", 0, "1.0")
        shap_test == get_shap_explanation(engine, "rul", test_data, 3, out)
    IN  Handled(jsonify(
            [service |-> "Explainability API", status |-> "healthy",
             explainers |-> [shap_available |-> "error" \notin DOMAIN shap_test,
                             lime_available |-> "tabular" \in engine.lime_explainers,
                             feature_count |-> FEATURES]], 200),
            <<Call("explainability", "get_shap_explanation", test_data, shap_test)>>)

\* ----------------------------------------------------------------- app.py
\* api_status (route /api/v1/status) builds a ModelManager of its own. Both
\* its try block and its except block then evaluate datetime.timezone on
\* the datetime class, which raises AttributeError, so the request ends in
\* the 500 error handler.
api_status(e) ==
    LET model_manager == ModelManager(e)
        models_status == get_models_status(model_manager)
    IN  Handled(jsonify([error |-> "Internal server error"], 500),
                <<Call("status", "ModelManager", e, model_manager),
                  Call("status", "get_models_status", e, models_status)>>)

\* ------------------------------------------------------- the state machine
\* What the trained models return for the rows of a request: the regressor's
\* value, the classifier's probability row, the detector's decision value.
RULValues == (0 - RulBelowZero)..MaxRul
Scores == (0 - MaxScore)..MaxScore

n_classes(e) == Cardinality(failure_targets(e))

Distributions(n) == {p \in [1..n -> 0..ProbUnits] : SeqSum(p) = ProbUnits}

\* What the attached explainers return. A profile gives one contribution
\* per feature, zero where it names none.
Sparse(f) == [i \in 1..FEATURES |-> IF i \in DOMAIN f THEN f[i] ELSE 0]

ShapProfiles ==
    {Sparse((2 :> 3) @@ (5 :> (0 - 3)) @@ (7 :> 2)),
     Sparse((20 :> 1) @@ (21 :> 2) @@ (22 :> 3) @@ (23 :> (0 - 4)) @@ (24 :> 5)),
     Sparse(<<>>)}

Margins == {0 - 1, 0, 1}

\* The Explanation of a model with one output: TreeExplainer checks that
\* the base value and the contributions add up to the model's output.
Explanation(values, output) ==
    [values |-> values, base_values |-> output - SeqSum(values), outputs |-> 0]

\* The Explanation of a classifier with more than two classes: one column
\* and one base value per class.
PerClass(values, n) ==
    [values |-> [i \in 1..FEATURES |-> [c \in 1..n |-> c * values[i]]],
     base_values |-> [c \in 1..n |-> 0],
     outputs |-> n]

\* LIME's description of a feature of the instance: the quartile bin the
\* value falls in, "name <= q" (or "name > q") for an outer bin and
\* "q < name <= q" for an inner one.
description(i, inner) ==
    IF inner THEN <<"-0.67", "<">> \o feature_names[i] \o <<"<=", "0.00">>
    ELSE feature_names[i] \o <<"<=", "-0.67">>

\* The pairs LIME returns, largest magnitude first: the weighted features of
\* top in the order given, then the others with weight zero.
LimeList(top, inner) ==
    LET named == {top[i][1] : i \in 1..Len(top)}
        others == SortedSeq((1..FEATURES) \ named)
    IN  [i \in 1..FEATURES |->
            IF i <= Len(top)
            THEN [feature |-> description(top[i][1], top[i][1] \in inner),
                  importance |-> top[i][2]]
            ELSE [feature |-> description(others[i - Len(top)],
                                          others[i - Len(top)] \in inner),
                  importance |-> 0]]

LimeProfiles ==
    {LimeList(<<<<2, 3>>, <<5, 0 - 3>>, <<7, 2>>>>, {}),
     LimeList(<<<<2, 3>>, <<5, 0 - 3>>, <<7, 2>>>>, {2, 7}),
     LimeList(<<<<5, 0 - 3>>, <<2, 3>>, <<7, 2>>>>, {})}

Out(e, rul, proba, score, margin, rul_values, failure_values, lime) ==
    [rul |-> rul, proba |-> proba, score |-> score, margin |-> margin,
     shap |-> [rul |-> Explanation(rul_values, rul),
               failure |-> IF n_classes(e) > 2
                           THEN PerClass(failure_values, n_classes(e))
                           ELSE Explanation(failure_values, margin)],
     lime |-> lime]

DefaultShap == Sparse((2 :> 3) @@ (5 :> (0 - 3)) @@ (7 :> 2))

DefaultLime == LimeList(<<<<2, 3>>, <<5, 0 - 3>>, <<7, 2>>>>, {})

DefaultProba(e) == [i \in 1..n_classes(e) |-> IF i = 1 THEN ProbUnits ELSE 0]

DefaultOut(e) ==
    Out(e, 100, DefaultProba(e), 0, 0, DefaultShap, DefaultShap, DefaultLime)

FewOuts(e) ==
    {DefaultOut(e),
     Out(e, 29, [i \in 1..n_classes(e) |-> IF i = 2 THEN ProbUnits ELSE 0], 0 - 1, 0,
         DefaultShap, DefaultShap, DefaultLime)}

SingleBodies == {EmptyDict} \cup {[sensor_data |-> a] : a \in Arrays}

ZeroBody == [sensor_data |-> Zeros]

TypedBodies ==
    SingleBodies \cup {[sensor_data |-> a, model_type |-> t] :
                          a \in FewArrays, t \in ModelTypes \cup {"anomaly"}}

\* The display counts a caller sends (the handlers pass them on unchecked)
DisplayCounts == {0 - 1, 0, 5, FEATURES, FEATURES + 1}

ShapBodies ==
    {[sensor_data |-> Zeros, model_type |-> t, max_features |-> n] :
        t \in ModelTypes, n \in DisplayCounts}

LimeBodies ==
    {[sensor_data |-> Zeros, model_type |-> t, num_features |-> n] :
        t \in ModelTypes, n \in DisplayCounts}

\* The machines (data points) of a batch request: machine i is "M<i>"; one
\* has no sensor_data, one has no machine_id and a later timestamp.
BatchItems(i) ==
    {[machine_id |-> "M" \o ToString(i), timestamp |-> 1]}
        \cup {[machine_id |-> "M" \o ToString(i), timestamp |-> 1, sensor_data |-> a] :
                 a \in BatchArrays}
        \cup {[timestamp |-> 2, sensor_data |-> Zeros]}

BatchLists ==
    UNION {{l \in [1..n -> UNION {BatchItems(i) : i \in 1..n}] :
               \A i \in 1..n : l[i] \in BatchItems(i)} : n \in 0..MaxBatch}

PredictionTypes == {{"rul", "failure_risk", "anomaly"}, {"anomaly"}, {}}

\* One output per machine; a machine whose vector does not reach a model
\* gets the default output.
BatchOuts(e, items) ==
    {o \in [1..Len(items) -> FewOuts(e)] :
        \A i \in 1..Len(items) :
            o[i] # DefaultOut(e) =>
                /\ "sensor_data" \in DOMAIN items[i]
                /\ items[i].sensor_data = Zeros}

NoRequest == [route |-> "none", data |-> EmptyDict]
NoResponse == jsonify(EmptyDict, 0)

Init ==
    /\ env \in Environments
    /\ prediction_mm = ModelManager(env)
    /\ explain_mm = ModelManager(env)
    /\ explainer = ModelExplainer(ModelManager(env), env)
    /\ anomaly_mm = ModelManager(env)
    /\ pc = "idle"
    /\ req = NoRequest
    /\ lib = DefaultOut(env)
    /\ resp = NoResponse
    /\ calls = <<>>

Serve(route, data, out, handled) ==
    /\ pc' = "responded"
    /\ req' = [route |-> route, data |-> data]
    /\ lib' = out
    /\ resp' = handled.response
    /\ calls' = handled.calls
    /\ UNCHANGED <<env, prediction_mm, explain_mm, explainer, anomaly_mm>>

PredictRul ==
    /\ pc = "idle"
    /\ \E data \in SingleBodies, v \in RULValues :
           /\ v # DefaultOut(env).rul => data = ZeroBody
           /\ LET out == Out(env, v, DefaultProba(env), 0, 0, DefaultShap, DefaultShap,
                             DefaultLime)
              IN  Serve("/api/v1/prediction/rul", data, out,
                        prediction_api_predict_rul(prediction_mm, data, out))

PredictFailureRisk ==
    /\ pc = "idle"
    /\ \E data \in SingleBodies, p \in Distributions(n_classes(env)) :
           /\ p # DefaultOut(env).proba => data = ZeroBody
           /\ LET out == [DefaultOut(env) EXCEPT !.proba = p]
              IN  Serve("/api/v1/prediction/failure-risk", data, out,
                        prediction_api_predict_failure_risk(prediction_mm, data, out))

BatchPredict ==
    /\ pc = "idle"
    /\ \/ Serve("/api/v1/prediction/batch", EmptyDict, <<>>,
                batch_predict(prediction_mm, EmptyDict, <<>>))
       \/ \E machines \in BatchLists, types \in PredictionTypes :
              \E outs \in BatchOuts(env, machines) :
                  LET data == IF types = {}
                              THEN [machines |-> machines]
                              ELSE [machines |-> machines, prediction_types |-> types]
                  IN  Serve("/api/v1/prediction/batch", data, outs,
                            batch_predict(prediction_mm, data, outs))

PredictionHealth ==
    /\ pc = "idle"
    /\ Serve("/api/v1/prediction/health", EmptyDict, DefaultOut(env),
             prediction_api_health_check(prediction_mm))

DetectAnomaly ==
    /\ pc = "idle"
    /\ \E data \in SingleBodies, sc \in Scores :
           /\ sc # DefaultOut(env).score => data = ZeroBody
           /\ LET out == [DefaultOut(env) EXCEPT !.score = sc]
              IN  Serve("/api/v1/anomaly/detect", data, out,
                        anomaly_api_detect_anomaly(anomaly_mm, data, out))

BatchDetect ==
    /\ pc = "idle"
    /\ \/ Serve("/api/v1/anomaly/batch-detect", EmptyDict, <<>>,
                batch_detect_anomalies(anomaly_mm, EmptyDict, <<>>))
       \/ \E points \in BatchLists :
              \E outs \in BatchOuts(env, points) :
                  Serve("/api/v1/anomaly/batch-detect", [data_points |-> points], outs,
                        batch_detect_anomalies(anomaly_mm, [data_points |-> points], outs))

TrendAnalysis ==
    /\ pc = "idle"
    /\ \/ Serve("/api/v1/anomaly/trend-analysis", EmptyDict, <<>>,
                analyze_anomaly_trends(anomaly_mm, EmptyDict, <<>>))
       \/ \E points \in BatchLists :
              \E outs \in BatchOuts(env, sort_by_timestamp(points)) :
                  Serve("/api/v1/anomaly/trend-analysis", [time_series_data |-> points],
                        outs,
                        analyze_anomaly_trends(anomaly_mm, [time_series_data |-> points],
                                               outs))

AnomalyHealth ==
    /\ pc = "idle"
    /\ \E sc \in Scores :
           LET out == [DefaultOut(env) EXCEPT !.score = sc]
           IN  Serve("/api/v1/anomaly/health", EmptyDict, out,
                     anomaly_api_health_check(anomaly_mm, out))

\* A request to the explanation routes: the engine is what the call leaves.
ServeExplanation(route, data, out, handled) ==
    /\ pc' = "responded"
    /\ req' = [route |-> route, data |-> data]
    /\ lib' = out
    /\ resp' = handled.response
    /\ calls' = handled.calls
    /\ explainer' = IF handled.calls = <<>> THEN explainer
                    ELSE engine_after(explainer, handled.calls[1].result)
    /\ UNCHANGED <<env, prediction_mm, explain_mm, anomaly_mm>>

ShapExplanation ==
    /\ pc = "idle"
    /\ \E data \in TypedBodies \cup ShapBodies, values \in ShapProfiles, m \in Margins :
           /\ (values # DefaultShap \/ m # 0) => data \in ShapBodies
           /\ LET out == Out(env, 100, DefaultProba(env), 0, m, values, values,
                             DefaultLime)
              IN  ServeExplanation("/api/v1/explainability/shap", data, out,
                      explainability_api_get_shap_explanation(explain_mm, explainer,
                                                              data, out))

LimeExplanation ==
    /\ pc = "idle"
    /\ \E data \in TypedBodies \cup LimeBodies, lime \in LimeProfiles :
           /\ lime # DefaultLime => data \in LimeBodies
           /\ LET out == Out(env, 100, DefaultProba(env), 0, 0, DefaultShap,
                             DefaultShap, lime)
              IN  ServeExplanation("/api/v1/explainability/lime", data, out,
                      explainability_api_get_lime_explanation(explain_mm, explainer,
                                                              data, out))

ComprehensiveExplanation ==
    /\ pc = "idle"
    /\ \E data \in SingleBodies, rul_values \in ShapProfiles,
          failure_values \in ShapProfiles, lime \in LimeProfiles :
           /\ (rul_values # DefaultShap \/ failure_values # DefaultShap
                  \/ lime # DefaultLime) => data = ZeroBody
           /\ LET out == Out(env, 100, DefaultProba(env), 0, 0, rul_values,
                             failure_values, lime)
              IN  ServeExplanation("/api/v1/explainability/comprehensive", data, out,
                      get_comprehensive_explanation(explain_mm, explainer, data, out))

ExplainabilityHealth ==
    /\ pc = "idle"
    /\ ServeExplanation("/api/v1/explainability/health", EmptyDict, DefaultOut(env),
                        explainability_api_health_check(explainer, DefaultOut(env)))

ApiStatus ==
    /\ pc = "idle"
    /\ Serve("/api/v1/status", EmptyDict, DefaultOut(env), api_status(env))

\* LimeTabularExplainer is built without random_state, so explain_instance
\* draws each neighbourhood from numpy's global generator and the weights
\* fitted on a second neighbourhood differ from those on the first. Two
\* neighbourhoods are kept: the weights of the other one are twice (half)
\* those of the one at hand, which keeps the order of as_list().
other_neighbourhood(lime) ==
    IF \A i \in 1..Len(lime) : lime[i].importance % 2 = 0
    THEN [i \in 1..Len(lime) |-> [lime[i] EXCEPT !.importance = @ \div 2]]
    ELSE [i \in 1..Len(lime) |-> [lime[i] EXCEPT !.importance = 2 * @]]

ExplanationRoutes ==
    {"/api/v1/explainability/shap", "/api/v1/explainability/lime",
     "/api/v1/explainability/comprehensive"}

PredictionRoutes ==
    {"/api/v1/prediction/rul", "/api/v1/prediction/failure-risk",
     "/api/v1/anomaly/detect"}

\* The handler of a single-vector route
handler_of(route, data, out) ==
    IF route = "/api/v1/prediction/rul"
    THEN prediction_api_predict_rul(prediction_mm, data, out)
    ELSE IF route = "/api/v1/prediction/failure-risk"
    THEN prediction_api_predict_failure_risk(prediction_mm, data, out)
    ELSE IF route = "/api/v1/anomaly/detect"
    THEN anomaly_api_detect_anomaly(anomaly_mm, data, out)
    ELSE IF route = "/api/v1/explainability/shap"
    THEN explainability_api_get_shap_explanation(explain_mm, explainer, data, out)
    ELSE IF route = "/api/v1/explainability/lime"
    THEN explainability_api_get_lime_explanation(explain_mm, explainer, data, out)
    ELSE get_comprehensive_explanation(explain_mm, explainer, data, out)

\* The response is sent and the caller sends the same request again. The
\* models are trained with fixed seeds and the tree explainers are exact, so
\* they return for the same row what they returned before; the surrogate
\* explainer samples a neighbourhood again.
RepeatRequest ==
    /\ pc = "responded"
    /\ req.route \in PredictionRoutes \cup ExplanationRoutes
    /\ \E lime \in {lib.lime, other_neighbourhood(lib.lime)} :
           /\ lime # lib.lime =>
                  req.route \in {"/api/v1/explainability/lime",
                                 "/api/v1/explainability/comprehensive"}
           /\ LET out == [lib EXCEPT !.lime = lime]
                  handled == handler_of(req.route, req.data, out)
              IN  IF req.route \in ExplanationRoutes
                  THEN ServeExplanation(req.route, req.data, out, handled)
                  ELSE Serve(req.route, req.data, out, handled)

\* The response is sent and the process waits for the next request.
Respond ==
    /\ pc = "responded"
    /\ pc' = "idle"
    /\ req' = NoRequest
    /\ lib' = DefaultOut(env)
    /\ resp' = NoResponse
    /\ calls' = <<>>
    /\ UNCHANGED <<env, prediction_mm, explain_mm, explainer, anomaly_mm>>

Next ==
    \/ PredictRul
    \/ PredictFailureRisk
    \/ BatchPredict
    \/ PredictionHealth
    \/ DetectAnomaly
    \/ BatchDetect
    \/ TrendAnalysis
    \/ AnomalyHealth
    \/ ShapExplanation
    \/ LimeExplanation
    \/ ComprehensiveExplanation
    \/ ExplainabilityHealth
    \/ ApiStatus
    \/ RepeatRequest
    \/ Respond

Spec == Init /\ [][Next]_vars

\* ------------------------------------------------------------ properties
Vectors(data) == IF "sensor_data" \in DOMAIN data THEN {data.sensor_data} ELSE {}

SingleRoutes ==
    {"/api/v1/prediction/rul", "/api/v1/prediction/failure-risk",
     "/api/v1/anomaly/detect", "/api/v1/explainability/shap",
     "/api/v1/explainability/lime", "/api/v1/explainability/comprehensive"}

ListKey ==
    [r \in {"/api/v1/prediction/batch", "/api/v1/anomaly/batch-detect",
            "/api/v1/anomaly/trend-analysis"} |->
        IF r = "/api/v1/prediction/batch" THEN "machines"
        ELSE IF r = "/api/v1/anomaly/batch-detect" THEN "data_points"
        ELSE "time_series_data"]

ReturnedCalls(fn) ==
    {i \in 1..Len(calls) : calls[i].fn = fn /\ ~Raised(calls[i].result)}

Clamp(x, lo, hi) == IF x < lo THEN lo ELSE IF x > hi THEN hi ELSE x

MaxOf(f) == CHOOSE m \in {f[k] : k \in DOMAIN f} : \A k \in DOMAIN f : f[k] <= m

RECURSIVE SumOf(_)
SumOf(f) ==
    IF DOMAIN f = {} THEN 0
    ELSE LET k == CHOOSE x \in DOMAIN f : TRUE
         IN  f[k] + SumOf([x \in DOMAIN f \ {k} |-> f[x]])

\* C1: validate_input_data raises for every input that does not have
\* exactly 24 elements or that holds NaN, +Infinity or -Infinity, and
\* returns True for every finite vector of 24 elements.
C1_ValidateRejectsAllBut24Finite ==
    \A a \in Vectors(req.data) :
        /\ (size(a) # FEATURES \/ isnan(a) # {} \/ isinf(a) # {})
               => Raised(validate_input_data(a))
        /\ (a.shape = <<FEATURES>> /\ \A i \in 1..size(a) : a.flat[i] \in Finite)
               => validate_input_data(a) = Ret(TRUE)

\* What a handler has answered for the vectors of its request that fail
\* validation: the single-vector routes a validation error and no call at
\* all, the list routes an entry that carries the error and no call for
\* that vector.
ValidationErrorReturned ==
    /\ req.route \in SingleRoutes =>
           \A a \in Vectors(req.data) :
               (Len(a.shape) = 1 /\ Raised(validate_input_data(a))) =>
                   /\ "status" \in DOMAIN resp.json
                   /\ resp.json.status = "validation_error"
                   /\ calls = <<>>
    /\ req.route \in DOMAIN ListKey /\ ListKey[req.route] \in DOMAIN req.data =>
           LET items == req.data[ListKey[req.route]]
           IN  \A i \in 1..Len(items) : \A a \in Vectors(items[i]) :
                   (Len(a.shape) = 1 /\ Raised(validate_input_data(a))) =>
                       /\ \A c \in 1..Len(calls) : calls[c].data # a
                       /\ "results" \in DOMAIN resp.json
                       /\ Len(resp.json.results) = Len(items)
                       /\ resp.json.results[i].status = "error"
                       /\ resp.json.results[i].error = validate_input_data(a).msg

\* C2: in every handler that takes a sensor vector, a vector that fails
\* validation makes the handler return a validation error, no inference or
\* explanation call is made for it, and no registry or engine is changed.
C2_ValidationErrorBeforeInference ==
    [][pc' = "responded" =>
          /\ ValidationErrorReturned'
          /\ UNCHANGED <<prediction_mm, explain_mm, explainer, anomaly_mm>>]_vars

\* C3: predict_rul reports High iff the value is below 30, Medium iff it is
\* at least 30 and below 100, Low iff it is at least 100.
C3_RiskLevelThresholds ==
    \A i \in ReturnedCalls("predict_rul") :
        LET v == calls[i].result.value.rul_prediction
            level == calls[i].result.value.metadata.risk_level
        IN  /\ level \in {"High", "Medium", "Low"}
            /\ level = "High" <=> v < RUL_CRITICAL_THRESHOLD
            /\ level = "Medium" <=>
                   (RUL_CRITICAL_THRESHOLD <= v /\ v < RUL_WARNING_THRESHOLD)
            /\ level = "Low" <=> v >= RUL_WARNING_THRESHOLD

C3_Witness ==
    /\ req.route = "/api/v1/prediction/rul"
    /\ ReturnedCalls("predict_rul") # {}
    /\ lib.rul = RUL_CRITICAL_THRESHOLD
    /\ resp.json.rul_prediction = lib.rul
    /\ resp.json.risk_level = "Medium"

\* C4: detect_anomaly returns is_anomaly true exactly when the anomaly
\* score of the same result is negative.
C4_AnomalyIffNegativeScore ==
    \A i \in ReturnedCalls("detect_anomaly") :
        calls[i].result.value.is_anomaly
            <=> calls[i].result.value.metadata.anomaly_score < 0

C4_Witness ==
    /\ req.route = "/api/v1/anomaly/detect"
    /\ ReturnedCalls("detect_anomaly") # {}
    /\ lib.score < 0
    /\ resp.json.anomaly_score = lib.score
    /\ resp.json.is_anomaly

\* C5: the confidence of a predict_failure_risk result is the largest value
\* of the probabilities mapping of the same result.
C5_ConfidenceIsMaxProbability ==
    \A i \in ReturnedCalls("predict_failure_risk") :
        calls[i].result.value.metadata.confidence
            = MaxOf(calls[i].result.value.metadata.probabilities)

C5_Witness ==
    /\ req.route = "/api/v1/prediction/failure-risk"
    /\ ReturnedCalls("predict_failure_risk") # {}
    /\ lib.proba[1] < lib.proba[2]
    /\ resp.json.confidence = lib.proba[2]

\* C6: the probabilities mapping of a predict_failure_risk result has
\* exactly the classes Low Risk, Medium Risk and High Risk, and its values
\* sum to 1.
C6_ThreeClassesSummingToOne ==
    \A i \in ReturnedCalls("predict_failure_risk") :
        LET probabilities == calls[i].result.value.metadata.probabilities
        IN  /\ DOMAIN probabilities = {"Low Risk", "Medium Risk", "High Risk"}
            /\ SumOf(probabilities) = ProbUnits

\* C7: the confidence of a predict_rul result is 1 - |v - 100| / 200 clamped
\* to [0.6, 0.95] (in units of 1/200: 200 - |v - 100| clamped to [120, 190]).
C7_ConfidenceClamped ==
    \A i \in ReturnedCalls("predict_rul") :
        LET v == calls[i].result.value.rul_prediction
            confidence == calls[i].result.value.metadata.prediction_confidence
        IN  /\ confidence = Clamp(200 - Abs(v - 100), 120, 190)
            /\ 120 <= confidence /\ confidence <= 190

C7_Witness ==
    /\ req.route = "/api/v1/prediction/rul"
    /\ ReturnedCalls("predict_rul") # {}
    /\ lib.rul = 0
    /\ resp.json.confidence = 120

\* The model and the normalizer each scoring method needs, and the message
\* of its model-unavailable error.
Needs ==
    [fn \in {"predict_rul", "predict_failure_risk", "detect_anomaly"} |->
        IF fn = "predict_rul"
        THEN [model |-> "rul_predictor", scaler |-> "rul_scaler",
              msg |-> "RUL model not available"]
        ELSE IF fn = "predict_failure_risk"
        THEN [model |-> "failure_classifier", scaler |-> "failure_scaler",
              msg |-> "Failure classification model not available"]
        ELSE [model |-> "anomaly_detector", scaler |-> "anomaly_scaler",
              msg |-> "Anomaly detection model not available"]]

RegistryOf(name) == IF name = "prediction" THEN prediction_mm ELSE anomaly_mm

Unavailable(c) ==
    /\ c.fn \in DOMAIN Needs
    /\ c.registry \in {"prediction", "anomaly"}
    /\ \/ Needs[c.fn].model \notin DOMAIN RegistryOf(c.registry).models
       \/ Needs[c.fn].scaler \notin DOMAIN RegistryOf(c.registry).scalers

\* C8: whenever a scoring model or its normalizer is absent, every
\* predict_rul, predict_failure_risk and detect_anomaly call raises the
\* model-unavailable error that names the model, and returns no prediction.
C8_AbsentModelRaisesUnavailable ==
    \A i \in 1..Len(calls) :
        Unavailable(calls[i]) =>
            /\ Raised(calls[i].result)
            /\ calls[i].result.type = "ValueError"
            /\ calls[i].result.msg = Needs[calls[i].fn].msg

C8_Witness ==
    /\ req.route = "/api/v1/prediction/rul"
    /\ "rul_predictor" \notin DOMAIN prediction_mm.models
    /\ Len(calls) = 1
    /\ Unavailable(calls[1])
    /\ calls[1].result = Raise("ValueError", "RUL model not available")

\* C9: a failure names its kind in a machine-readable field, and a schema
\* violation, an unavailable model and a computation failure are never
\* reported with the same kind. (The kind the handlers give a schema
\* violation is 'validation_error', the kind of any other exception 'error'.)
C9_FailureKindsDistinct ==
    req.route \in {"/api/v1/prediction/rul", "/api/v1/prediction/failure-risk",
                   "/api/v1/anomaly/detect"} =>
        \A a \in Vectors(req.data) :
            /\ (a.shape = <<FEATURES>> /\ Raised(validate_input_data(a))) =>
                   /\ "status" \in DOMAIN resp.json
                   /\ resp.json.status = "validation_error"
            /\ (\E i \in 1..Len(calls) : Unavailable(calls[i])) =>
                   /\ "status" \in DOMAIN resp.json
                   /\ resp.json.status \notin {"validation_error", "error", "success"}

\* C10: after startup no request constructs (trains) a scoring model, a
\* normalizer or an explainer again.
C10_NoConstructionAfterStartup ==
    \A i \in 1..Len(calls) : calls[i].fn # "ModelManager"

\* ------------------------------------------------- properties of the engine
Succeeded(explanation) == "error" \notin DOMAIN explanation

\* The explanation calls of the request being answered, each with the
\* explanation type, the model type and the display count it was asked for.
ExplanationCalls ==
    IF calls = <<>> THEN {}
    ELSE IF req.route = "/api/v1/explainability/shap"
    THEN {[type |-> "SHAP", model_type |-> get_or(req.data, "model_type", "rul"),
           n |-> get_or(req.data, "max_features", 10), result |-> calls[1].result]}
    ELSE IF req.route = "/api/v1/explainability/lime"
    THEN {[type |-> "LIME", model_type |-> get_or(req.data, "model_type", "failure"),
           n |-> get_or(req.data, "num_features", 10), result |-> calls[1].result]}
    ELSE IF req.route = "/api/v1/explainability/health"
    THEN {[type |-> "SHAP", model_type |-> "rul", n |-> 3, result |-> calls[1].result]}
    ELSE IF req.route = "/api/v1/explainability/comprehensive"
              /\ Succeeded(calls[1].result)
    THEN {[type |-> "SHAP", model_type |-> "rul", n |-> 10,
           result |-> calls[1].result.shap_rul],
          [type |-> "SHAP", model_type |-> "failure", n |-> 10,
           result |-> calls[1].result.shap_failure],
          [type |-> "LIME", model_type |-> "failure", n |-> 10,
           result |-> calls[1].result.lime_local]}
    ELSE {}

Attached(c) ==
    IF c.type = "SHAP" THEN c.model_type \in explainer.shap_explainers
    ELSE "tabular" \in explainer.lime_explainers

CombinedCalls ==
    {i \in 1..Len(calls) : calls[i].fn = "get_feature_impact_analysis"}

\* The feature a record is about: its name for an additive record, the
\* feature name inside the description for a surrogate record.
FeatureOf(record) ==
    CHOOSE name \in {feature_names[i] : i \in 1..FEATURES} :
        \E k \in 1..Len(record.feature) : <<record.feature[k]>> = name

IndexOf(record) == CHOOSE i \in 1..FEATURES : feature_names[i] = FeatureOf(record)

Top5(explanation) ==
    {FeatureOf(explanation.feature_importance[i]) :
        i \in 1..Min2(5, Len(explanation.feature_importance))}

\* C11: after construction the engine is Ready or Degraded and stays as it
\* is: no explanation call, successful or failed, attaches, detaches or
\* replaces an explainer.
C11_EngineStateFixed ==
    [][/\ explainer'.shap_explainers = explainer.shap_explainers
       /\ explainer'.lime_explainers = explainer.lime_explainers]_vars

C11_Witness ==
    /\ req.route = "/api/v1/explainability/shap"
    /\ explainer.shap_explainers = {"rul"}
    /\ \E c \in ExplanationCalls : c.model_type = "failure" /\ ~Succeeded(c.result)

\* C12: a call for an explanation type whose explainer was never attached
\* returns an error payload that names the explanation type and the model
\* type asked for and holds no attribution records.
C12_UnattachedReturnsErrorPayload ==
    \A c \in ExplanationCalls :
        ~Attached(c) =>
            /\ DOMAIN c.result = {"error", "model_type", "explanation_type"}
            /\ c.result.explanation_type = c.type
            /\ c.result.model_type = c.model_type
            /\ resp.http = 200

C12_Witness ==
    /\ req.route = "/api/v1/explainability/lime"
    /\ "tabular" \notin explainer.lime_explainers
    /\ \E c \in ExplanationCalls :
           /\ c.result.explanation_type = "LIME"
           /\ c.result.error = "LIME explainer not available"

\* C13: a combined request attempts all three explanations on every call;
\* whatever succeeds or fails, the result has one entry per explanation, its
\* result or its error payload, each what the explanation returns on its own.
C13_CombinedHasEveryConstituent ==
    \A i \in CombinedCalls :
        LET result == calls[i].result
            input_data == calls[i].data
        IN  /\ {"shap_rul", "shap_failure", "lime_local"} \subseteq DOMAIN result
            /\ "error" \notin DOMAIN result
            /\ result.shap_rul.explanation_type = "SHAP"
            /\ result.shap_rul.model_type = "rul"
            /\ result.shap_failure.explanation_type = "SHAP"
            /\ result.shap_failure.model_type = "failure"
            /\ result.lime_local.explanation_type = "LIME"
            /\ result.lime_local.model_type = "failure"
            /\ Succeeded(result.shap_rul)
                   <=> ("rul" \in explainer.shap_explainers
                           /\ ~Raised(transform(StandardScaler, input_data)))

C13_Witness ==
    /\ req.route = "/api/v1/explainability/comprehensive"
    /\ \E i \in CombinedCalls :
           /\ Succeeded(calls[i].result.shap_rul)
           /\ ~Succeeded(calls[i].result.shap_failure)
           /\ Succeeded(calls[i].result.lime_local)

\* C14: when one or two of the three explanations of a combined request
\* failed, the consensus is the intersection of the top-5 feature sets of
\* the explanations that succeeded.
C14_ConsensusOverSucceeded ==
    \A i \in CombinedCalls :
        LET result == calls[i].result
            succeeded == {k \in {"shap_rul", "shap_failure", "lime_local"} :
                             Succeeded(result[k])}
        IN  (succeeded # {} /\ Cardinality(succeeded) < 3) =>
                result.consensus_features =
                    {f \in {feature_names[j] : j \in 1..FEATURES} :
                        \A k \in succeeded : f \in Top5(result[k])}

\* C15: when all three explanations succeed, the consensus is a subset of
\* each of the three top-5 feature sets and contains every feature that is
\* in all three; it is empty when they share none.
C15_ConsensusIsIntersection ==
    \A i \in CombinedCalls :
        LET result == calls[i].result
        IN  (Succeeded(result.shap_rul) /\ Succeeded(result.shap_failure)
                /\ Succeeded(result.lime_local)) =>
                result.consensus_features =
                    Top5(result.shap_rul) \cap Top5(result.shap_failure)
                        \cap Top5(result.lime_local)

\* C16: when the three explanations have the same five top features, the
\* consensus is exactly that set of five.
C16_IdenticalTopFive ==
    \A i \in CombinedCalls :
        LET result == calls[i].result
        IN  (/\ Succeeded(result.shap_rul) /\ Succeeded(result.shap_failure)
             /\ Succeeded(result.lime_local)
             /\ Top5(result.shap_rul) = Top5(result.shap_failure)
             /\ Top5(result.shap_rul) = Top5(result.lime_local)
             /\ Cardinality(Top5(result.shap_rul)) = 5) =>
                result.consensus_features = Top5(result.shap_rul)

\* C17: for every display count n the caller sends, a successful additive or
\* surrogate explanation returns at most n attribution records.
C17_AtMostDisplayCount ==
    \A c \in ExplanationCalls :
        Succeeded(c.result) => Len(c.result.feature_importance) <= c.n

\* C18: the attribution list of the additive and of the surrogate
\* explanation is ordered by non-increasing magnitude, and records of equal
\* magnitude appear in the original feature order.
C18_DescendingThenFeatureOrder ==
    \A c \in ExplanationCalls :
        Succeeded(c.result) =>
            LET records == c.result.feature_importance
            IN  \A i \in 1..(Len(records) - 1) :
                    \/ records[i].abs_importance > records[i + 1].abs_importance
                    \/ /\ records[i].abs_importance = records[i + 1].abs_importance
                       /\ IndexOf(records[i]) < IndexOf(records[i + 1])

\* C19: an additive explanation of the failure model reports the
\* contributions toward the High Risk class (class index 2 of Low, Medium,
\* High), no other class having been asked for.
C19_ContributionsTowardHighRisk ==
    \A c \in ExplanationCalls :
        (c.type = "SHAP" /\ c.model_type = "failure" /\ Attached(c)
            /\ \A i \in CombinedCalls \cup {1} :
                   ~Raised(transform(StandardScaler, calls[i].data))) =>
            /\ Succeeded(c.result)
            /\ lib.shap.failure.outputs = Len(classes)
            /\ \A i \in 1..Len(c.result.feature_importance) :
                   LET record == c.result.feature_importance[i]
                   IN  record.shap_value =
                           lib.shap.failure.values[IndexOf(record)][Len(classes)]

C21_RepeatedCallsAgree ==
    [][(pc = "responded" /\ pc' = "responded") =>
           (resp' = resp /\ calls' = calls)]_vars

\* --------------------------------------------- properties of the registry
ModelNames == {"rul_predictor", "failure_classifier", "anomaly_detector"}

Registries == {prediction_mm, explain_mm, anomaly_mm, explainer.model_manager}

\* The status snapshots of the registries, and those the request being
\* answered has taken.
StatusSnapshots ==
    {get_models_status(mm) : mm \in Registries}
        \cup {calls[i].result : i \in {j \in 1..Len(calls) :
                                           calls[j].fn = "get_models_status"}}
        \cup (IF req.route = "/api/v1/prediction/health"
              THEN {resp.json.models} ELSE {})

SampledModel(model_type) ==
    IF model_type = "rul" THEN Needs["predict_rul"] ELSE Needs["predict_failure_risk"]

SamplingFails(c) ==
    /\ c.type = "LIME"
    /\ Attached(c)
    /\ SampledModel(c.model_type).model \notin DOMAIN explainer.model_manager.models

\* C23: when a nested inference call fails while the surrogate explainer
\* samples its neighbourhood, the get_lime_explanation call ends with an
\* error payload that carries the failure's message and no attribution
\* records; the request makes that one call and no second attempt.
C23_SamplingFailureAborts ==
    \A c \in ExplanationCalls :
        (SamplingFails(c) /\ calls[1].data.shape = <<FEATURES>>) =>
            /\ c.result = ErrorPayload(SampledModel(c.model_type).msg,
                                       c.model_type, "LIME")
            /\ "feature_importance" \notin DOMAIN c.result
            /\ Len(calls) = 1

C23_Witness ==
    /\ req.route = "/api/v1/explainability/lime"
    /\ "tabular" \in explainer.lime_explainers
    /\ "rul_predictor" \notin DOMAIN explainer.model_manager.models
    /\ \E c \in ExplanationCalls :
           /\ c.model_type = "rul"
           /\ c.n = FEATURES
           /\ c.result.error = "RUL model not available"

\* The contributions the explainer of a model returned for the instance
ContributionsOf(model_type) ==
    IF model_type = "rul" THEN lib.shap.rul.values ELSE lib.shap.failure.values

ImpactWord(contribution) == IF contribution > 0 THEN "increases" ELSE "decreases"

\* C24: for every successful explanation and every display count the
\* summary names the feature ranked first by magnitude for the instance and
\* says "increases" exactly when that feature's contribution is positive,
\* "decreases" otherwise; the additive summary also names the features
\* ranked second and third, the surrogate summary names no other feature.
C24_SummaryNamesTopFeature ==
    \A c \in ExplanationCalls :
        Succeeded(c.result) =>
            LET summary == c.result.summary
                records == c.result.feature_importance
            IN  IF c.type = "SHAP"
                THEN LET v == ContributionsOf(c.model_type)
                     IN  /\ Len(summary.other_features) = 2
                         /\ \E top, second, third \in 1..FEATURES :
                                /\ Cardinality({top, second, third}) = 3
                                /\ summary.feature = feature_names[top]
                                /\ summary.impact_word = ImpactWord(v[top])
                                /\ summary.other_features[1] = feature_names[second]
                                /\ summary.other_features[2] = feature_names[third]
                                /\ Abs(v[top]) >= Abs(v[second])
                                /\ Abs(v[second]) >= Abs(v[third])
                                /\ \A j \in (1..FEATURES) \ {top, second, third} :
                                       Abs(v[third]) >= Abs(v[j])
                         /\ records # <<>> => summary.feature = records[1].feature
                ELSE /\ DOMAIN summary = {"text", "feature", "impact_word"}
                     /\ records # <<>>
                     /\ summary.feature = records[1].feature
                     /\ summary.impact_word = ImpactWord(records[1].importance)
                     /\ \A i \in 1..Len(records) :
                            Abs(records[1].importance) >= Abs(records[i].importance)
                     /\ \A i \in 1..c.n :
                            i <= Len(lib.lime) =>
                                Abs(records[1].importance) >= Abs(lib.lime[i].importance)

C24_Witness ==
    /\ req.route = "/api/v1/explainability/shap"
    /\ \E c \in ExplanationCalls :
           /\ c.n = 0
           /\ Succeeded(c.result)
           /\ c.result.feature_importance = <<>>
           /\ c.result.summary.feature = <<"sensor_21">>
           /\ c.result.summary.impact_word = "increases"
           /\ c.result.summary.other_features = <<<<"sensor_20">>, <<"sensor_19">>>>

\* ------------------------------------------ properties of batch requests
\* C25: the response to a batch prediction request with a list of machines
\* has exactly one result entry per machine, in input order, each marked
\* success or error; successful_predictions is the number of success
\* entries and total_machines the number of machines; a machine whose entry
\* is malformed or whose prediction fails yields an error entry and leaves
\* the entries of the other machines as they are.
C25_OneEntryPerMachine ==
    (req.route = "/api/v1/prediction/batch" /\ "machines" \in DOMAIN req.data) =>
        LET machines == req.data.machines
            malformed(i) ==
                \/ "sensor_data" \notin DOMAIN machines[i]
                \/ Raised(validate_input_data(machines[i].sensor_data))
        IN  /\ resp.http = 200
            /\ Len(resp.json.results) = Len(machines)
            /\ resp.json.total_machines = Len(machines)
            /\ resp.json.successful_predictions =
                   Cardinality({i \in 1..Len(machines) :
                                   resp.json.results[i].status = "success"})
            /\ \A i \in 1..Len(machines) :
                   /\ resp.json.results[i].status \in {"success", "error"}
                   /\ resp.json.results[i].machine_id =
                          get_or(machines[i], "machine_id", "unknown")
                   /\ malformed(i) => resp.json.results[i].status = "error"

\* ------------------------------------- properties of attribution records
\* The signed contribution of a record
ContributionOf(record) ==
    IF "shap_value" \in DOMAIN record THEN record.shap_value ELSE record.importance

\* C26: every attribution record of either explanation method has a
\* magnitude equal to the absolute value of its contribution and a direction
\* equal to its sign: positive exactly when the contribution is > 0,
\* negative exactly when it is < 0.
C26_MagnitudeAndDirection ==
    \A c \in ExplanationCalls :
        Succeeded(c.result) =>
            \A i \in 1..Len(c.result.feature_importance) :
                LET record == c.result.feature_importance[i]
                IN  /\ record.abs_importance = Abs(ContributionOf(record))
                    /\ record.impact = "positive" <=> ContributionOf(record) > 0
                    /\ record.impact = "negative" <=> ContributionOf(record) < 0

\* ----------------------------------- properties of the registry's tables
ScalerOf ==
    [name \in ModelNames |->
        IF name = "rul_predictor" THEN "rul_scaler"
        ELSE IF name = "failure_classifier" THEN "failure_scaler"
        ELSE "anomaly_scaler"]

\* C27: after construction, whatever loaders failed, a model is in models
\* exactly when its normalizer is in scalers and exactly when its model_info
\* status is 'ready'; so healthy_models equals total_models in every status
\* snapshot, and no scoring call that finds its model fails on a missing
\* normalizer.
C27_ModelScalerStatusAgree ==
    /\ \A mm \in Registries :
           /\ \A name \in ModelNames :
                  /\ name \in DOMAIN mm.models <=> ScalerOf[name] \in DOMAIN mm.scalers
                  /\ name \in DOMAIN mm.models <=>
                         (name \in DOMAIN mm.model_info
                             /\ mm.model_info[name].status = "ready")
           /\ DOMAIN mm.models \subseteq ModelNames
           /\ DOMAIN mm.scalers \subseteq {ScalerOf[name] : name \in ModelNames}
    /\ \A snapshot \in StatusSnapshots :
           snapshot.healthy_models = snapshot.total_models
    /\ \A i \in 1..Len(calls) :
           (calls[i].fn \in DOMAIN Needs /\ Raised(calls[i].result)) =>
               calls[i].result.type # "KeyError"

C27_Witness ==
    /\ req.route = "/api/v1/prediction/failure-risk"
    /\ "rul_predictor" \notin DOMAIN prediction_mm.models
    /\ "failure_classifier" \in DOMAIN prediction_mm.models
    /\ get_models_status(prediction_mm).healthy_models = 2
    /\ get_models_status(prediction_mm).total_models = 2
    /\ \E i \in 1..Len(calls) :
           /\ calls[i].fn = "predict_failure_risk"
           /\ ~Raised(calls[i].result)

\* ------------------------------------------ properties of the attachment
\* C28: the explainers are attached independently at construction: a
\* failure building the additive explainer of the RUL model prevents neither
\* the additive explainer of the failure model nor the surrogate explainer
\* from being attached, and a failure building an additive explainer does
\* not prevent the surrogate explainer from being attached.
C28_AttachmentIndependent ==
    LET scalers == DOMAIN explainer.model_manager.scalers
    IN  /\ ("rul_scaler" \in scalers /\ "shap.Explainer(rul)" \notin env.failing) =>
               "rul" \in explainer.shap_explainers
        /\ ("failure_scaler" \in scalers
               /\ "shap.Explainer(failure)" \notin env.failing) =>
               "failure" \in explainer.shap_explainers
        /\ "LimeTabularExplainer" \notin env.failing =>
               "tabular" \in explainer.lime_explainers

\* C29: for every label the surrogate explainer emits for a discretised
\* feature, one-sided or two-sided, the name extracted from it for the
\* consensus comparison is one of the 24 feature names, namely that of the
\* feature the label is about.
C29_ExtractedNameIsFeature ==
    \A c \in ExplanationCalls :
        (c.type = "LIME" /\ Succeeded(c.result)) =>
            \A i \in 1..Len(c.result.feature_importance) :
                LET label == c.result.feature_importance[i].feature
                IN  /\ first_word(label) \in {feature_names[k] : k \in 1..FEATURES}
                    /\ first_word(label) = FeatureOf(c.result.feature_importance[i])

\* C30: a response of the /shap, /lime or /comprehensive handler carries
\* status 'success' only if the explanation it wraps succeeded: when the
\* engine returned an error payload, the response is not labelled 'success'.
C30_SuccessOnlyIfSucceeded ==
    (req.route \in ExplanationRoutes /\ calls # <<>>
        /\ calls[1].data.shape = <<FEATURES>>
        /\ ~Succeeded(calls[1].result)) =>
        ~("status" \in DOMAIN resp.json /\ resp.json.status = "success")

====
